---- MODULE Spec2Model ----
(***************************************************************************)
(* "Into the Dark": the narrative progression and memory-scoring core.     *)
(*                                                                         *)
(* The repository holds three implementations of the core:                 *)
(*   - python_backend/game_engine.py  GameEngine + SaveManager ("backend") *)
(*   - python_backend/story_engine.py StoryEngine              ("story")   *)
(*   - pyqt6_game.py                  GameEngine (QObject)     ("qt")      *)
(* A behaviour of Spec runs one of them; the variable `engine`, chosen in  *)
(* Init and never changed, says which.  The variables of the other two     *)
(* implementations keep their constructed values.                          *)
(*                                                                         *)
(* Python's 0-based choice index i addresses element i+1 of a TLA+         *)
(* sequence.  None is modelled as 0 for Choice.next_scene (the source      *)
(* tests it with `if choice.next_scene:`).                                 *)
(***************************************************************************)
EXTENDS Integers, Sequences, FiniteSets, TLC

VARIABLES
    engine,        \* which implementation this behaviour runs
    progress,      \* backend: GameEngine.progress (a GameProgress)
    slots,         \* backend: content of save/save_slot_<k>.json, per slot
    start_time,    \* backend: GameEngine.start_time
    now,           \* time.time() at the current call
    game_state,    \* story: StoryEngine.game_state (a GameState)
    save_file,     \* story: content of save/save.json
    qt_scene,      \* qt: GameEngine.current_scene
    qt_memory,     \* qt: GameEngine.memory_values
    qt_ending,     \* qt: the alignment scenes[999] was built for, or "none"
    qt_response,   \* qt: the response make_choice selected, or "none"
    window,        \* qt: MainWindow, the scene it shows and its connections
    settings,      \* backend: GameEngine.settings
    volume,        \* backend: GameEngine.audio_manager.volume
    typewriter_speed, \* backend: GameEngine.dialogue_manager.typewriter_speed
    auto_advance,  \* backend: GameEngine.dialogue_manager.auto_advance
    race,          \* backend: two make_choice calls running in two threads
    config,        \* ConfigManager.config (a GameConfig)
    config_file,   \* content of config/game_config.json
    transition_manager, \* TransitionManager and its transition threads
    dialogue_manager,   \* backend: DialogueManager and its typewriter thread
    typewriter,    \* qt: the TypewriterEffect of the dialogue box
    failures,      \* number of storage failures the environment has caused
    last           \* the last operation called, its argument and its result

backendVars == <<progress, slots, start_time>>
storyVars   == <<game_state, save_file>>
qtVars      == <<qt_scene, qt_memory, qt_ending, qt_response, window>>
configVars  == <<settings, volume, typewriter_speed, auto_advance>>
\* the variables of the parts modelled after the three engines
cfgVars     == <<config, config_file>>
tmVars      == <<transition_manager>>
twVars      == <<dialogue_manager, typewriter>>
sideVars    == <<race, cfgVars, tmVars, twVars>>
\* the variables of the three engines
coreVars    == <<engine, progress, slots, start_time, now, game_state,
                save_file, qtVars, configVars>>
vars == <<engine, progress, slots, start_time, now, game_state, save_file,
          qt_scene, qt_memory, qt_ending, qt_response, window, settings,
          volume, typewriter_speed, auto_advance, race, config, config_file,
          transition_manager, dialogue_manager, typewriter, failures, last>>

----------------------------------------------------------------------------
(* Bounds of the model *)

\* backend: make_choice is not called once the choice log has this length
MaxChoices == 11
\* the same in SpecLong, where one index is played through the catalog
\* again and again until a counter has passed 100
MaxLongChoices == 25
\* SpecTime: the clock stops at this time, and make_choice is not called
\* once the choice log has MaxTimedChoices entries
MaxTime == 2
MaxTimedChoices == 3
\* SpecRace: no call is issued once the choice log has this length
MaxRaceChoices == 3
\* story: make_choice is not called once the counters sum to this
MaxTotal == 205
\* the environment makes at most this many storage operations fail
MaxFailures == 1

\* choice indexes the front end passes: out of range below, two valid
\* indexes, out of range above
ChoiceInputs == {-1, 0, 1, 4}
\* the choice indexes of SpecSave, where every saved progress multiplies the
\* states: one valid index and the two out-of-range ones
SaveInputs == {-1, 0, 4}
\* save slots: 0 is the slot of the automatic saves, 3 stands for the
\* slots only an explicit save_game writes
Slots == {0, 3}
\* the choice indexes of SpecLong: one valid index, one out of range
LongInputs == {2, 4}
\* the choice indexes of SpecTime and SpecSettings
TimedInputs == {0, 4}
\* the settings passed to update_settings: a volume above the range, two
\* dialogue settings, and a key that names a field of the progress
SettingsInputs ==
    {[volume |-> 12],
     [text_speed |-> 1, auto_advance |-> FALSE],
     [current_scene |-> 5]}
\* the updates passed to update_config: a known key, two known keys, a
\* known key with an unknown one, a tuple with a string
ConfigInputs ==
    {[master_volume |-> 8],
     [master_volume |-> 3, muted |-> FALSE],
     [muted |-> TRUE, bogus_key |-> 1],
     [resolution |-> [type |-> "tuple", items |-> <<1280, 720>>],
      language |-> "fr"]}

----------------------------------------------------------------------------
(* Memory axes and alignment *)

\* MemoryType, in declaration order; every memory_values dict of the three
\* engines is built with its keys inserted in this order
AxisOrder == <<"kindness", "obsession", "truth", "trust">>
Axes == {AxisOrder[k] : k \in 1..4}

ZeroMemory == [a \in Axes |-> 0]

MemorySum(m) == m["kindness"] + m["obsession"] + m["truth"] + m["trust"]

MaxOf(m) == CHOOSE v \in {m[a] : a \in Axes} : \A a \in Axes : m[a] <= v

\* max(memory_values.items(), key=lambda x: x[1])[0]: Python's max returns
\* the first maximal item in iteration (insertion) order
Dominant(m) ==
    AxisOrder[CHOOSE k \in 1..4 :
        /\ m[AxisOrder[k]] = MaxOf(m)
        /\ \A j \in 1..(k-1) : m[AxisOrder[j]] < MaxOf(m)]

\* alignment_map
AlignmentMap(a) ==
    CASE a = "kindness"  -> "Kind"
      [] a = "obsession" -> "Obsessed"
      [] a = "truth"     -> "Truth-Seeker"
      [] a = "trust"     -> "Trusting"
      [] OTHER           -> "Balanced"

\* the threshold below which the alignment is Neutral
Threshold == 20

\* MemoryAnalytics.get_current_alignment and SaveManager._get_current_alignment
\* (the same code twice); `not memory_values` is false for the 4-key dict
get_current_alignment(m) ==
    IF MaxOf(m) < Threshold THEN "Neutral" ELSE AlignmentMap(Dominant(m))


----------------------------------------------------------------------------
(* Backend: scene catalog (game_engine.py, GameEngine._load_scenes) *)

Choice(t, v) == [memory_type |-> t, memory_value |-> v, next_scene |-> 0]

\* the four choices of every scene, in the order of the source
BackendScenes ==
    [s \in 1..10 |->
       CASE s \in {1, 2, 5, 6, 7, 9, 10} ->
              <<Choice("kindness", 5), Choice("obsession", 5),
                Choice("truth", 5), Choice("trust", 5)>>
         [] s = 3 ->
              <<Choice("trust", 5), Choice("obsession", 5),
                Choice("kindness", 5), Choice("truth", 5)>>
         [] s = 4 ->
              <<Choice("truth", 5), Choice("obsession", 5),
                Choice("kindness", 5), Choice("trust", 5)>>
         [] s = 8 ->
              <<Choice("kindness", 10), Choice("obsession", 10),
                Choice("truth", 10), Choice("trust", 10)>>]

----------------------------------------------------------------------------
(* Backend: GameProgress, SaveManager *)

\* GameProgress as GameEngine.__init__ and reset_game build it.  The fields
\* save_slots and settings are never written by the engine and stay {}.
NewProgress ==
    [current_scene     |-> 1,
     current_act       |-> 1,
     watched_cutscenes |-> <<>>,
     memory_values     |-> ZeroMemory,
     choices_made      |-> <<>>,
     play_time         |-> 0,
     achievements      |-> <<>>]

\* an entry of choices_made: the engine appends a Python tuple
Entry(s, i) == [type |-> "tuple", scene |-> s, choice |-> i]

\* the pairs of a choice log, whatever Python type carries them
Pairs(log) == [k \in DOMAIN log |-> <<log[k].scene, log[k].choice>>]

AbsentFile  == [kind |-> "absent"]
CorruptFile == [kind |-> "corrupt"]

\* a mutant of JsonProgress: the choice log is not written
JsonProgressNoLog(p) == [p EXCEPT !.choices_made = <<>>]

\* json.dump(asdict(progress)): every field is written under its name; JSON
\* has arrays only, so each (scene, index) tuple is written as a 2-element
\* array and is read back as a list
JsonProgress(p) ==
    [p EXCEPT !.choices_made =
        [k \in DOMAIN p.choices_made |->
            [p.choices_made[k] EXCEPT !.type = "list"]]]

\* save_data of SaveManager.save_game, as written to the slot file
SaveData(p, t) ==
    [kind      |-> "json",
     version   |-> "1.0.0",
     timestamp |-> t,
     progress  |-> JsonProgress(p),
     metadata  |-> [play_time     |-> p.play_time,
                    current_scene |-> p.current_scene,
                    alignment     |-> get_current_alignment(p.memory_values)]]

\* What a write can do: "ok" writes the file; "denied" fails in open()
\* and leaves the file as it was; "partial" fails after open(.., 'w')
\* truncated the file (disk full), leaving no parsable document.
WriteOutcomes(f) ==
    {"ok"} \cup (IF f < MaxFailures THEN {"denied", "partial"} ELSE {})

Failed(o) == IF o = "ok" THEN 0 ELSE 1

WriteFile(old, data, o) ==
    CASE o = "ok"      -> data
      [] o = "denied"  -> old
      [] o = "partial" -> CorruptFile

\* a mutant of save_game_result: the exception handler also returns True
save_game_result_true(o) == TRUE

\* the value SaveManager.save_game returns: True after the dump, False from
\* the except clause
save_game_result(o) == o = "ok"

NoProgress == [found |-> FALSE, progress |-> NewProgress]

\* a mutant of load_game_result: a new GameProgress is returned in place of
\* None
load_game_result_fresh(file, readable) ==
    IF file.kind = "json" /\ readable
    THEN [found |-> TRUE, progress |-> file.progress]
    ELSE [found |-> TRUE, progress |-> NewProgress]

\* SaveManager.load_game: None (found = FALSE) when the file does not exist
\* or anything raises (unreadable file, no parsable document); otherwise
\* GameProgress(**save_data["progress"])
load_game_result(file, readable) ==
    IF file.kind = "json" /\ readable
    THEN [found |-> TRUE, progress |-> file.progress]
    ELSE NoProgress

----------------------------------------------------------------------------
(* Backend: GameEngine.make_choice, _handle_game_completion, reset_game *)

Result(op, arg, ok, io) == [op |-> op, arg |-> arg, ok |-> ok, io_ok |-> io]

\* the guard of make_choice: the scene exists and the index is in range
BackendValid(p, i) ==
    /\ p.current_scene \in DOMAIN BackendScenes
    /\ i >= 0
    /\ i < Len(BackendScenes[p.current_scene])

BackendChoice(p, i) == BackendScenes[p.current_scene][i + 1]

AppendNew(seq, x) ==
    IF \E k \in DOMAIN seq : seq[k] = x THEN seq ELSE Append(seq, x)

\* a mutant of Applied: the choice is logged under the scene that follows
AppliedLogsNextScene(p, i) ==
    LET c == BackendChoice(p, i) IN
    [p EXCEPT
        !.memory_values[c.memory_type] = @ + c.memory_value,
        !.choices_made = Append(@, Entry(p.current_scene + 1, i)),
        !.watched_cutscenes = AppendNew(@, p.current_scene)]

\* a mutant of Applied: the increment replaces the counter
AppliedAssign(p, i) ==
    LET c == BackendChoice(p, i) IN
    [p EXCEPT
        !.memory_values[c.memory_type] = c.memory_value,
        !.choices_made = Append(@, Entry(p.current_scene, i)),
        !.watched_cutscenes = AppendNew(@, p.current_scene)]

\* make_choice up to "Mark scene as watched": the counter of the choice's
\* axis is incremented, the choice is logged, the scene is marked
Applied(p, i) ==
    LET c == BackendChoice(p, i) IN
    [p EXCEPT
        !.memory_values[c.memory_type] = @ + c.memory_value,
        !.choices_made = Append(@, Entry(p.current_scene, i)),
        !.watched_cutscenes = AppendNew(@, p.current_scene)]

\* the choice completes the game: no explicit next_scene and the current
\* scene is not below len(self.scenes)
Completes(p, i) ==
    /\ BackendChoice(p, i).next_scene = 0
    /\ ~(p.current_scene < Cardinality(DOMAIN BackendScenes))

\* a mutant of Advanced: the loop back to scene 1 also clears the counters
AdvancedClearsMemory(p, i) ==
    LET q == Applied(p, i) IN
    IF p.current_scene < Cardinality(DOMAIN BackendScenes)
    THEN [q EXCEPT !.current_scene = @ + 1]
    ELSE [q EXCEPT !.current_scene = 1, !.memory_values = ZeroMemory]

\* "Move to next scene", with the progress part of _handle_game_completion
Advanced(p, i) ==
    LET c == BackendChoice(p, i)
        q == Applied(p, i)
    IN  IF c.next_scene # 0
        THEN [q EXCEPT !.current_scene = c.next_scene]
        ELSE IF p.current_scene < Cardinality(DOMAIN BackendScenes)
        THEN [q EXCEPT !.current_scene = @ + 1]
        ELSE [q EXCEPT
                !.current_scene = 1,
                !.achievements = AppendNew(@,
                    get_current_alignment(q.memory_values))]

\* the model stops calling make_choice once the choice log has n entries
LogBelow(n) == Len(progress.choices_made) < n

\* GameEngine.make_choice(i), the whole handler
BackendMakeChoice(i) ==
    /\ engine = "backend"
    /\ IF ~BackendValid(progress, i)
       THEN /\ last' = Result("make_choice", i, FALSE, TRUE)
            /\ UNCHANGED <<progress, slots, failures>>
       ELSE \E o1 \in WriteOutcomes(failures) :
            \E o2 \in WriteOutcomes(failures + Failed(o1)) :
            LET done == Completes(progress, i)
                q    == Advanced(progress, i)
                \* _handle_game_completion saves before play_time is updated
                f1   == IF done
                        THEN WriteFile(slots[0], SaveData(q, now), o1)
                        ELSE slots[0]
                r    == [q EXCEPT !.play_time = now - start_time]
                f2   == WriteFile(f1, SaveData(r, now), o2)
            IN  /\ ~done => o1 = "ok"
                /\ progress' = r
                /\ slots' = [slots EXCEPT ![0] = f2]
                /\ failures' = failures + Failed(o1) + Failed(o2)
                \* the result of the auto-save is dropped: make_choice
                \* returns True whatever save_game returned
                /\ last' = Result("make_choice", i, TRUE,
                                  o1 = "ok" /\ o2 = "ok")
    /\ UNCHANGED <<engine, configVars, sideVars,
                  start_time, now, storyVars, qtVars>>

\* GameEngine.get_memory_percentages: min((value / max_value) * 100, 100.0)
\* with max_value = 100.  For the integer counters of the model the float
\* (value / 100) * 100 is within 1e-13 of value and grows with it, so the
\* percentages order and compare as the counters capped at 100 do.
get_memory_percentages(m) == [a \in Axes |-> IF m[a] < 100 THEN m[a] ELSE 100]

\* a mutant of ResetProgress: the choice log survives the reset
ResetProgressKeepsLog(p) == [NewProgress EXCEPT !.choices_made = p.choices_made]

\* the progress reset_game installs: a new GameProgress, nothing of the old
ResetProgress(p) == NewProgress

\* a mutant of BackendReset: the automatic save is written to every slot
BackendResetEverySlot ==
    /\ engine = "backend"
    /\ \E o \in WriteOutcomes(failures) :
         /\ progress' = ResetProgress(progress)
         /\ start_time' = now
         /\ slots' = [k \in Slots |->
                        WriteFile(slots[k], SaveData(progress', now), o)]
         /\ failures' = failures + Failed(o)
         /\ last' = Result("reset_game", 0, save_game_result(o), o = "ok")
    /\ UNCHANGED <<engine, configVars, sideVars, now, storyVars, qtVars>>

\* GameEngine.reset_game()
BackendReset ==
    /\ engine = "backend"
    /\ \E o \in WriteOutcomes(failures) :
         /\ progress' = ResetProgress(progress)
         /\ start_time' = now
         /\ slots' = [slots EXCEPT
                        ![0] = WriteFile(@, SaveData(progress', now), o)]
         /\ failures' = failures + Failed(o)
         /\ last' = Result("reset_game", 0, save_game_result(o), o = "ok")
    /\ UNCHANGED <<engine, configVars, sideVars, now, storyVars, qtVars>>

\* engine.save_manager.save_game(engine.progress, slot), as the CLI command
\* save_game and the tests call it; the CLI answers success = the result
BackendSaveGame(slot) ==
    /\ engine = "backend"
    /\ \E o \in WriteOutcomes(failures) :
         /\ slots' = [slots EXCEPT
                        ![slot] = WriteFile(@, SaveData(progress, now), o)]
         /\ failures' = failures + Failed(o)
         /\ last' = Result("save_game", slot, save_game_result(o), o = "ok")
    /\ UNCHANGED <<engine, configVars, sideVars, progress, start_time, now,
                  storyVars, qtVars>>

\* the CLI command load_game: engine.progress is replaced only when
\* load_game returned a progress
BackendLoadGame(slot) ==
    /\ engine = "backend"
    /\ \E readable \in {TRUE} \cup (IF failures < MaxFailures
                                    THEN {FALSE} ELSE {}) :
         LET got == load_game_result(slots[slot], readable) IN
         /\ progress' = IF got.found THEN got.progress ELSE progress
         /\ failures' = failures + (IF readable THEN 0 ELSE 1)
         /\ last' = Result("load_game", slot, got.found, readable)
    /\ UNCHANGED <<engine, configVars, sideVars, slots, start_time, now,
                  storyVars, qtVars>>

\* SaveManager.max_save_slots
max_save_slots == 10

\* the content of save_slot_<k>.json: the engine and its callers write only
\* the slots of Slots, the files of the other indexes are never created
SlotFile(files, k) == IF k \in DOMAIN files THEN files[k] ELSE AbsentFile

\* a mutant of SlotSummary: only the slots that hold a save are listed
SlotSummaryNoEmpty(file, k, readable) ==
    IF file.kind = "json" /\ readable
    THEN <<[slot |-> k, timestamp |-> file.timestamp,
            current_scene |-> file.metadata.current_scene,
            play_time |-> file.metadata.play_time,
            alignment |-> file.metadata.alignment]>>
    ELSE <<>>

\* What one round of the loop of get_save_slots appends for slot k: the
\* "Empty" summary when the file does not exist, the summary of the save
\* when the file is read, and nothing when reading it raises (the except
\* clause only logs).  None is written -1 (timestamps are not negative).
SlotSummary(file, k, readable) ==
    CASE file.kind = "absent" ->
           <<[slot |-> k, timestamp |-> -1, current_scene |-> 0,
              play_time |-> 0, alignment |-> "Empty"]>>
      [] file.kind = "json" /\ readable ->
           <<[slot |-> k, timestamp |-> file.timestamp,
              current_scene |-> file.metadata.current_scene,
              play_time |-> file.metadata.play_time,
              alignment |-> file.metadata.alignment]>>
      [] OTHER -> <<>>

RECURSIVE SlotsFrom(_, _, _)
\* the loop `for slot in range(self.max_save_slots)` from slot k on
SlotsFrom(files, bad, k) ==
    IF k >= max_save_slots THEN <<>>
    ELSE SlotSummary(SlotFile(files, k), k, k \notin bad)
         \o SlotsFrom(files, bad, k + 1)

\* SaveManager.get_save_slots(); bad is the set of slots whose file exists
\* and cannot be opened
get_save_slots(files, bad) == SlotsFrom(files, bad, 0)

\* the slots the environment makes unreadable during one get_save_slots
BadSlots(r) == IF r.io_ok THEN {} ELSE {r.arg}

\* the CLI command get_save_slots; last.arg names the slot that could not be
\* opened, if any (io_ok is then FALSE)
BackendGetSaveSlots ==
    /\ engine = "backend"
    /\ \/ last' = Result("get_save_slots", 0, TRUE, TRUE) /\ UNCHANGED failures
       \/ \E k \in Slots :
            /\ failures < MaxFailures
            /\ slots[k].kind # "absent"
            /\ failures' = failures + 1
            /\ last' = Result("get_save_slots", k, TRUE, FALSE)
    /\ UNCHANGED <<engine, configVars, sideVars,
                  backendVars, now, storyVars, qtVars>>

\* self.settings of GameEngine.__init__; volume in tenths, text_speed in
\* hundredths of a second
DefaultSettings ==
    [text_speed |-> 5, auto_advance |-> TRUE, volume |-> 7,
     fullscreen |-> FALSE, language |-> "en"]

\* dict.update
DictUpdate(d, n) ==
    [k \in DOMAIN d \cup DOMAIN n |-> IF k \in DOMAIN n THEN n[k] ELSE d[k]]

\* AudioManager.set_volume: max(0.0, min(1.0, volume)), in tenths
set_volume(v) == IF v < 0 THEN 0 ELSE IF v > 10 THEN 10 ELSE v

\* a mutant of BackendUpdateSettings: a key that names a field of the
\* progress is written into the progress as well
BackendUpdateSettingsIntoProgress(new_settings) ==
    /\ engine = "backend"
    /\ settings' = DictUpdate(settings, new_settings)
    /\ progress' = IF "current_scene" \in DOMAIN new_settings
                   THEN [progress EXCEPT
                           !.current_scene = new_settings["current_scene"]]
                   ELSE progress
    /\ last' = Result("update_settings", 0, TRUE, TRUE)
    /\ UNCHANGED <<engine, sideVars, volume, typewriter_speed, auto_advance,
                  slots, start_time, now, storyVars, qtVars, failures>>

\* GameEngine.update_settings(new_settings)
BackendUpdateSettings(new_settings) ==
    /\ engine = "backend"
    /\ settings' = DictUpdate(settings, new_settings)
    /\ volume' = IF "volume" \in DOMAIN new_settings
                 THEN set_volume(new_settings["volume"]) ELSE volume
    /\ typewriter_speed' = IF "text_speed" \in DOMAIN new_settings
                           THEN new_settings["text_speed"]
                           ELSE typewriter_speed
    /\ auto_advance' = IF "auto_advance" \in DOMAIN new_settings
                       THEN new_settings["auto_advance"] ELSE auto_advance
    /\ last' = Result("update_settings", 0, TRUE, TRUE)
    /\ UNCHANGED <<engine, sideVars, backendVars, now, storyVars, qtVars,
                  failures>>

\* GameEngine(): a new engine on the same save directory (every CLI command
\* and every test builds one).  Nothing is loaded: the progress is new, the
\* settings are the defaults and the timer starts now.
BackendNewEngine ==
    /\ engine = "backend"
    /\ progress' = NewProgress
    /\ start_time' = now
    /\ settings' = DefaultSettings
    /\ volume' = 7
    /\ typewriter_speed' = 5
    /\ auto_advance' = TRUE
    /\ last' = Result("new_engine", 0, TRUE, TRUE)
    /\ UNCHANGED <<engine, sideVars, slots, now, storyVars, qtVars, failures>>

\* time passes between two calls: time.time() grows
Tick ==
    /\ now < MaxTime
    /\ now' = now + 1
    /\ last' = Result("tick", 0, TRUE, TRUE)
    /\ UNCHANGED <<engine, configVars, sideVars,
                  backendVars, storyVars, qtVars,
                  failures>>

\* GameEngine.make_choice called from two threads at once.  The method
\* takes no lock, so the interpreter may switch threads between any two of
\* its statements, and inside `x += v` between the read and the write.
\* race.call[t] is the call of thread t: its position, its argument and its
\* local variables; race.start is the progress when the calls were issued.
Threads == {1, 2}

NoRace == [active |-> FALSE, start |-> NewProgress,
           call |-> [t \in Threads |->
                       [pc |-> "done", i |-> 0, ok |-> FALSE, tmp |-> 0,
                        choice |-> Choice("kindness", 0)]]]

\* two threads call make_choice(i1) and make_choice(i2)
RaceBegin(i1, i2) ==
    /\ engine = "backend"
    /\ ~race.active
    /\ race' = [active |-> TRUE, start |-> progress,
                call |-> [t \in Threads |->
                            [pc |-> "guard", i |-> IF t = 1 THEN i1 ELSE i2,
                             ok |-> FALSE, tmp |-> 0,
                             choice |-> Choice("kindness", 0)]]]
    /\ last' = Result("race_begin", 0, TRUE, TRUE)
    /\ UNCHANGED <<coreVars, cfgVars, tmVars, twVars, failures>>

\* the next statement of the make_choice of thread t
RaceStep(t) ==
    LET c  == race.call[t]
        to(pc, tmp) == [race EXCEPT !.call[t].pc = pc,
                                    !.call[t].tmp = tmp]
    IN
    /\ engine = "backend"
    /\ race.active
    /\ c.pc # "done"
    /\ last' = Result("race_step", t, TRUE, TRUE)
    /\ CASE c.pc = "guard" ->
              \* scene = self.get_current_scene(); the guard; choice = ...
              /\ race' = IF BackendValid(progress, c.i)
                         THEN [race EXCEPT
                                 !.call[t].pc = "read",
                                 !.call[t].ok = TRUE,
                                 !.call[t].choice =
                                     BackendChoice(progress, c.i)]
                         ELSE [race EXCEPT !.call[t].pc = "done"]
              /\ UNCHANGED <<progress, slots, failures>>
         [] c.pc = "read" ->
              \* memory_values[memory_key] += ...: the read
              /\ race' = to("write",
                            progress.memory_values[c.choice.memory_type])
              /\ UNCHANGED <<progress, slots, failures>>
         [] c.pc = "write" ->
              \* ... and the write
              /\ progress' = [progress EXCEPT
                    !.memory_values[c.choice.memory_type] =
                        c.tmp + c.choice.memory_value]
              /\ race' = to("log", 0)
              /\ UNCHANGED <<slots, failures>>
         [] c.pc = "log" ->
              \* choices_made.append((self.progress.current_scene, i))
              /\ progress' = [progress EXCEPT
                    !.choices_made =
                        Append(@, Entry(progress.current_scene, c.i))]
              /\ race' = to("watch", 0)
              /\ UNCHANGED <<slots, failures>>
         [] c.pc = "watch" ->
              /\ progress' = [progress EXCEPT
                    !.watched_cutscenes =
                        AppendNew(@, progress.current_scene)]
              /\ race' = to("move", 0)
              /\ UNCHANGED <<slots, failures>>
         [] c.pc = "move" ->
              IF progress.current_scene < Cardinality(DOMAIN BackendScenes)
              THEN \* self.progress.current_scene += 1: the read
                   /\ race' = to("move_write", progress.current_scene)
                   /\ UNCHANGED <<progress, slots, failures>>
              ELSE \* loop back to start, _handle_game_completion
                   \E o \in WriteOutcomes(failures) :
                   LET q == [progress EXCEPT
                               !.current_scene = 1,
                               !.achievements = AppendNew(@,
                                  get_current_alignment(
                                      progress.memory_values))]
                   IN  /\ progress' = q
                       /\ slots' = [slots EXCEPT ![0] =
                                       WriteFile(@, SaveData(q, now), o)]
                       /\ failures' = failures + Failed(o)
                       /\ race' = to("time", 0)
         [] c.pc = "move_write" ->
              /\ progress' = [progress EXCEPT !.current_scene = c.tmp + 1]
              /\ race' = to("time", 0)
              /\ UNCHANGED <<slots, failures>>
         [] c.pc = "time" ->
              \* play_time, auto-save, return True
              \E o \in WriteOutcomes(failures) :
              LET r == [progress EXCEPT !.play_time = now - start_time] IN
              /\ progress' = r
              /\ slots' = [slots EXCEPT ![0] =
                              WriteFile(@, SaveData(r, now), o)]
              /\ failures' = failures + Failed(o)
              /\ race' = to("done", 0)
    /\ UNCHANGED <<engine, configVars, cfgVars, tmVars, twVars, start_time,
                  now, storyVars, qtVars>>

\* both calls have returned
RaceEnd ==
    /\ engine = "backend"
    /\ race.active
    /\ \A t \in Threads : race.call[t].pc = "done"
    /\ race' = NoRace
    /\ last' = Result("race_end", 0, TRUE, TRUE)
    /\ UNCHANGED <<coreVars, cfgVars, tmVars, twVars, failures>>

\* GameConfig, one field of each type the dataclass holds (a tuple, a
\* float in tenths, a bool, a string); a tuple or list carries its Python
\* type beside its items
DefaultConfig ==
    [resolution    |-> [type |-> "tuple", items |-> <<1920, 1080>>],
     master_volume |-> 7,
     muted         |-> FALSE,
     language      |-> "en"]

\* a mutant of ConfigApply: setattr without the hasattr test
ConfigApplyAll(cfg, updates) == DictUpdate(cfg, updates)

\* the loop of update_config and of load_config: a key the config has is
\* set, any other key is skipped
ConfigApply(cfg, updates) ==
    [k \in DOMAIN cfg |-> IF k \in DOMAIN updates THEN updates[k] ELSE cfg[k]]

\* json.dump(asdict(config)) and json.load: JSON has arrays only, a tuple
\* comes back as a list
ConfigJson(cfg) ==
    [kind |-> "json",
     data |-> [cfg EXCEPT !.resolution.type = "list"]]

\* ConfigManager.save_config(), its result
save_config_result(o) == o = "ok"

\* ConfigManager.update_config(updates)
UpdateConfig(updates) ==
    /\ \E o \in WriteOutcomes(failures) :
         /\ config' = ConfigApply(config, updates)
         /\ config_file' = WriteFile(config_file, ConfigJson(config'), o)
         /\ failures' = failures + Failed(o)
         /\ last' = Result("update_config", updates, save_config_result(o),
                           o = "ok")
    /\ UNCHANGED <<coreVars, race, tmVars, twVars>>

\* ConfigManager(): a GameConfig of defaults, then load_config: the file's
\* keys are applied when it parses, the defaults are written when there is
\* no file, and the defaults stay when reading raises
NewConfigManager ==
    /\ \E o \in WriteOutcomes(failures) :
         /\ config_file.kind # "absent" => o = "ok"
         /\ config' = IF config_file.kind = "json"
                      THEN ConfigApply(DefaultConfig, config_file.data)
                      ELSE DefaultConfig
         /\ config_file' = IF config_file.kind = "absent"
                           THEN WriteFile(config_file,
                                          ConfigJson(DefaultConfig), o)
                           ELSE config_file
         /\ failures' = failures + Failed(o)
         /\ last' = Result("new_config_manager", 0,
                           config_file.kind # "corrupt", o = "ok")
    /\ UNCHANGED <<coreVars, race, tmVars, twVars>>

\* a command the CLI does not know: the final else branch of main
CliUnknownCommand ==
    /\ engine = "backend"
    /\ last' = Result("unknown", 0, FALSE, TRUE)
    /\ UNCHANGED <<engine, configVars, sideVars,
                  backendVars, now, storyVars, qtVars,
                  failures>>

\* the keys of the JSON document the CLI prints for the command that gave
\* result r
CliReply(r) ==
    CASE r.op = "unknown"        -> {"error"}
      [] r.op = "get_save_slots" -> {"save_slots"}
      [] r.op \in {"make_choice", "reset_game", "save_game", "load_game",
                   "update_settings"} -> {"success", "message"}

\* one CLI command: main() builds a GameEngine, runs the command on it,
\* prints the result and the process exits.  Every such action starts from
\* what GameEngine() builds; the variables hold the engine at exit.
CliNewEngine ==
    /\ start_time' = now
    /\ settings' = DefaultSettings
    /\ volume' = 7
    /\ typewriter_speed' = 5
    /\ auto_advance' = TRUE
    /\ UNCHANGED <<engine, sideVars, now, storyVars, qtVars>>

\* python3 cli_interface.py make_choice <i>
CliMakeChoice(i) ==
    /\ engine = "backend"
    /\ CliNewEngine
    /\ IF ~BackendValid(NewProgress, i)
       THEN /\ progress' = NewProgress
            /\ last' = Result("cli_make_choice", i, FALSE, TRUE)
            /\ UNCHANGED <<slots, failures>>
       ELSE \E o \in WriteOutcomes(failures) :
            \* the first scene never completes the game; play_time is
            \* time.time() - start_time of the engine just built
            LET r == [Advanced(NewProgress, i) EXCEPT !.play_time = 0] IN
            /\ progress' = r
            /\ slots' = [slots EXCEPT ![0] = WriteFile(@, SaveData(r, now), o)]
            /\ failures' = failures + Failed(o)
            /\ last' = Result("cli_make_choice", i, TRUE, o = "ok")

\* python3 cli_interface.py get_scene: last.arg is the scene_id printed
CliGetScene ==
    /\ engine = "backend"
    /\ CliNewEngine
    /\ progress' = NewProgress
    /\ last' = Result("cli_get_scene", progress'.current_scene, TRUE, TRUE)
    /\ UNCHANGED <<slots, failures>>

\* python3 cli_interface.py get_memory: last.arg is the counters printed
CliGetMemory ==
    /\ engine = "backend"
    /\ CliNewEngine
    /\ progress' = NewProgress
    /\ last' = Result("cli_get_memory", progress'.memory_values, TRUE, TRUE)
    /\ UNCHANGED <<slots, failures>>

\* python3 cli_interface.py save_game <slot>
CliSaveGame(slot) ==
    /\ engine = "backend"
    /\ CliNewEngine
    /\ progress' = NewProgress
    /\ \E o \in WriteOutcomes(failures) :
         /\ slots' = [slots EXCEPT
                        ![slot] = WriteFile(@, SaveData(NewProgress, now), o)]
         /\ failures' = failures + Failed(o)
         /\ last' = Result("cli_save_game", slot, save_game_result(o),
                           o = "ok")

\* python3 cli_interface.py load_game <slot>
CliLoadGame(slot) ==
    /\ engine = "backend"
    /\ CliNewEngine
    /\ \E readable \in {TRUE} \cup (IF failures < MaxFailures
                                    THEN {FALSE} ELSE {}) :
         LET got == load_game_result(slots[slot], readable) IN
         /\ progress' = IF got.found THEN got.progress ELSE NewProgress
         /\ failures' = failures + (IF readable THEN 0 ELSE 1)
         /\ last' = Result("cli_load_game", slot, got.found, readable)
    /\ UNCHANGED slots

----------------------------------------------------------------------------
(* Transition manager (transition_manager.py) *)

\* the model submits at most this many transitions
MaxTransitions == 2
\* the rounds of the effect loop, `for i in range(steps + 1)`, that a
\* transition of the model runs when it is neither stopped nor raises
EffectRounds == 1

\* a transition is named by the order of its submission
TransitionIds == 1..MaxTransitions

\* threads[t] is transition t and the thread that executes it: pc "new"
\* before the transition is created, "waiting" while no thread was started
\* for it, then the position of _execute_transition_thread; raises says
\* that its effect raises (a duration below 1/60 makes steps 0 and
\* `i / steps` a ZeroDivisionError); ended says how the effect ended
NewTransitionManager ==
    [transition_state   |-> "idle",
     current_transition |-> 0,
     transition_queue   |-> <<>>,
     stop_transition    |-> FALSE,
     threads            |-> [t \in TransitionIds |->
                               [pc |-> "new", raises |-> FALSE, i |-> 0,
                                ended |-> "no"]]]

\* TransitionManager.execute_transition(tr) on the manager m: queued when
\* the manager is not idle, else made current and given a thread
execute_transition(m, tr) ==
    IF m.transition_state # "idle"
    THEN [m EXCEPT !.transition_queue = Append(@, tr)]
    ELSE [m EXCEPT !.current_transition = tr,
                   !.transition_state = "preparing",
                   !.stop_transition = FALSE,
                   !.threads[tr].pc = "delay"]

\* what execute_transition returns
execute_transition_result(m) == m.transition_state = "idle"

\* TransitionManager.is_transitioning()
is_transitioning(m) == m.transition_state # "idle"

\* a mutant of ThreadNext: the exception handler without the finally clause
ThreadNextNoFinally(pc) ==
    CASE pc = "completed" -> "next"
      [] pc = "next"      -> "finally"
      [] pc = "except"    -> "done"
      [] pc = "finally"   -> "finally2"
      [] pc = "finally2"  -> "done"

\* the statement that follows in _execute_transition_thread: COMPLETED and
\* the callbacks, _process_next_transition, then the finally clause; the
\* except clause, then the finally clause
ThreadNext(pc) ==
    CASE pc = "completed" -> "next"
      [] pc = "next"      -> "finally"
      [] pc = "except"    -> "finally"
      [] pc = "finally"   -> "finally2"
      [] pc = "finally2"  -> "done"

\* the main thread calls execute_transition with a new transition
TmExecute(raises) ==
    /\ \E tr \in TransitionIds :
         /\ transition_manager.threads[tr].pc = "new"
         /\ \A u \in TransitionIds :
               u < tr => transition_manager.threads[u].pc # "new"
         /\ transition_manager' =
               execute_transition(
                   [transition_manager EXCEPT
                       !.threads[tr].pc = "waiting",
                       !.threads[tr].raises = raises], tr)
         /\ last' = Result("execute_transition", tr,
                           execute_transition_result(transition_manager),
                           TRUE)
    /\ UNCHANGED <<coreVars, race, cfgVars, twVars, failures>>

\* the next statement of the thread of transition t
TmThreadStep(t) ==
    LET m  == transition_manager
        th == m.threads[t]
    IN
    /\ th.pc \notin {"new", "waiting", "done"}
    /\ transition_manager' =
         CASE th.pc = "delay" ->
                \* time.sleep(delay); self.transition_state = TRANSITIONING
                [m EXCEPT !.transition_state = "transitioning",
                          !.threads[t].pc = "effect"]
           [] th.pc = "effect" ->
                \* one round of `for i in range(steps + 1)`, or its end
                IF th.i >= EffectRounds
                THEN [m EXCEPT !.threads[t].pc = "completed",
                               !.threads[t].ended = "completed"]
                ELSE IF m.stop_transition
                THEN [m EXCEPT !.threads[t].pc = "completed",
                               !.threads[t].ended = "stopped"]
                ELSE IF th.raises
                THEN [m EXCEPT !.threads[t].pc = "except",
                               !.threads[t].ended = "raised"]
                ELSE [m EXCEPT !.threads[t].i = @ + 1]
           [] th.pc = "completed" ->
                \* self.transition_state = COMPLETED, the callbacks
                [m EXCEPT !.transition_state = "completed",
                          !.threads[t].pc = ThreadNext(th.pc)]
           [] th.pc = "next" ->
                \* _process_next_transition()
                LET n == [m EXCEPT !.threads[t].pc = ThreadNext(th.pc)] IN
                IF m.transition_queue = <<>> THEN n
                ELSE execute_transition(
                         [n EXCEPT !.transition_queue = Tail(@)],
                         Head(m.transition_queue))
           [] th.pc = "except" ->
                [m EXCEPT !.transition_state = "idle",
                          !.threads[t].pc = ThreadNext(th.pc)]
           [] th.pc = "finally" ->
                [m EXCEPT !.current_transition = 0,
                          !.threads[t].pc = ThreadNext(th.pc)]
           [] th.pc = "finally2" ->
                [m EXCEPT !.transition_state = "idle",
                          !.threads[t].pc = ThreadNext(th.pc)]
    /\ last' = Result("transition_thread", t, TRUE, TRUE)
    /\ UNCHANGED <<coreVars, race, cfgVars, twVars, failures>>

\* TransitionManager.stop_current_transition()
TmStop ==
    /\ transition_manager' =
         IF transition_manager.transition_state = "transitioning"
         THEN [transition_manager EXCEPT !.stop_transition = TRUE]
         ELSE transition_manager
    /\ last' = Result("stop_current_transition", 0, TRUE, TRUE)
    /\ UNCHANGED <<coreVars, race, cfgVars, twVars, failures>>

\* TransitionManager.clear_transition_queue()
TmClearQueue ==
    /\ transition_manager' =
         [transition_manager EXCEPT !.transition_queue = <<>>]
    /\ last' = Result("clear_transition_queue", 0, TRUE, TRUE)
    /\ UNCHANGED <<coreVars, race, cfgVars, twVars, failures>>

----------------------------------------------------------------------------
(* Typewriter effects: DialogueManager (game_engine.py) and
   TypewriterEffect (pyqt6_game.py) *)

\* the dialogue texts of the model, as sequences of characters
Texts == {<<"a", "b", "c">>, <<"x", "y">>}

IsPrefix(s, t) == Len(s) <= Len(t) /\ \A k \in DOMAIN s : s[k] = t[k]

\* DialogueManager(): no dialogue (None is written <<>>), no thread, no
\* display callback; display is the text last passed to display_callback,
\* pending the text whose start_dialogue waits in join()
NewDialogueManager ==
    [current_dialogue |-> <<>>,
     display_callback |-> FALSE,
     display          |-> <<>>,
     pending          |-> <<>>,
     thread           |-> [pc |-> "none", text |-> <<>>, i |-> 0,
                           displayed_text |-> <<>>]]

\* threading.Thread(target=self._typewriter_effect, args=(text,)).start()
TypewriterThread(text) ==
    [pc |-> "loop", text |-> text, i |-> 0, displayed_text |-> <<>>]

\* DialogueManager.set_display_callback(callback)
DmSetDisplayCallback ==
    /\ dialogue_manager.pending = <<>>
    /\ dialogue_manager' = [dialogue_manager EXCEPT !.display_callback = TRUE]
    /\ last' = Result("set_display_callback", 0, TRUE, TRUE)
    /\ UNCHANGED <<coreVars, race, cfgVars, tmVars, typewriter, failures>>

\* DialogueManager.start_dialogue(dialogue): current_dialogue is set, then
\* the caller waits in join() while the thread of the previous dialogue is
\* alive, then the new thread is started
DmStartDialogue(text) ==
    /\ dialogue_manager.pending = <<>>
    /\ dialogue_manager' =
         IF dialogue_manager.thread.pc = "loop"
         THEN [dialogue_manager EXCEPT !.current_dialogue = text,
                                       !.pending = text]
         ELSE [dialogue_manager EXCEPT !.current_dialogue = text,
                                       !.thread = TypewriterThread(text)]
    /\ last' = Result("start_dialogue", 0, TRUE, TRUE)
    /\ UNCHANGED <<coreVars, race, cfgVars, tmVars, typewriter, failures>>

\* join() returns: the rest of start_dialogue
DmJoined ==
    /\ dialogue_manager.pending # <<>>
    /\ dialogue_manager.thread.pc = "done"
    /\ dialogue_manager' =
         [dialogue_manager EXCEPT
             !.pending = <<>>,
             !.thread = TypewriterThread(dialogue_manager.pending)]
    /\ last' = Result("start_dialogue_joined", 0, TRUE, TRUE)
    /\ UNCHANGED <<coreVars, race, cfgVars, tmVars, typewriter, failures>>

\* one round of the loop of _typewriter_effect, or its end (the
\* auto-advance calls the empty _advance_dialogue)
DmThreadStep ==
    LET th == dialogue_manager.thread IN
    /\ th.pc = "loop"
    /\ dialogue_manager' =
         IF th.i < Len(th.text)
         THEN LET shown == Append(th.displayed_text, th.text[th.i + 1]) IN
              [dialogue_manager EXCEPT
                  !.thread.displayed_text = shown,
                  !.thread.i = @ + 1,
                  !.display = IF dialogue_manager.display_callback
                              THEN shown ELSE @]
         ELSE [dialogue_manager EXCEPT !.thread.pc = "done"]
    /\ last' = Result("typewriter_thread", 0, TRUE, TRUE)
    /\ UNCHANGED <<coreVars, race, cfgVars, tmVars, typewriter, failures>>

\* DialogueManager.skip_typewriter()
DmSkip ==
    /\ dialogue_manager.pending = <<>>
    /\ dialogue_manager' =
         IF /\ dialogue_manager.current_dialogue # <<>>
            /\ dialogue_manager.display_callback
         THEN [dialogue_manager EXCEPT
                  !.display = dialogue_manager.current_dialogue]
         ELSE dialogue_manager
    /\ last' = Result("skip_typewriter", 0, TRUE, TRUE)
    /\ UNCHANGED <<coreVars, race, cfgVars, tmVars, typewriter, failures>>

\* TypewriterEffect(): timer says that the QTimer is running
NewTypewriterEffect ==
    [target_text |-> <<>>, current_text |-> <<>>, current_index |-> 0,
     timer |-> FALSE]

\* TypewriterEffect.start_typing(text)
TwStartTyping(text) ==
    /\ typewriter' = [target_text |-> text, current_text |-> <<>>,
                      current_index |-> 0, timer |-> TRUE]
    /\ last' = Result("start_typing", 0, TRUE, TRUE)
    /\ UNCHANGED <<coreVars, race, cfgVars, tmVars, dialogue_manager,
                  failures>>

\* TypewriterEffect.update_text(), the slot of the timer
TwUpdateText ==
    /\ typewriter.timer
    /\ typewriter' =
         IF typewriter.current_index < Len(typewriter.target_text)
         THEN [typewriter EXCEPT
                  !.current_text =
                      Append(@, typewriter.target_text[
                                    typewriter.current_index + 1]),
                  !.current_index = @ + 1]
         ELSE [typewriter EXCEPT !.timer = FALSE]
    /\ last' = Result("update_text", 0, TRUE, TRUE)
    /\ UNCHANGED <<coreVars, race, cfgVars, tmVars, dialogue_manager,
                  failures>>

\* TypewriterEffect.skip_typing()
TwSkipTyping ==
    /\ typewriter' = [typewriter EXCEPT
                         !.timer = FALSE,
                         !.current_text = typewriter.target_text]
    /\ last' = Result("skip_typing", 0, TRUE, TRUE)
    /\ UNCHANGED <<coreVars, race, cfgVars, tmVars, dialogue_manager,
                  failures>>

----------------------------------------------------------------------------
(* Story engine (story_engine.py) *)

\* StoryEngine._load_scenes: scenes 1-4 written out, 5-10 placeholders
StoryScenes ==
    [s \in 1..10 |->
       CASE s = 3 ->
              <<Choice("trust", 5), Choice("obsession", 5),
                Choice("kindness", 5), Choice("truth", 5)>>
         [] s = 4 ->
              <<Choice("truth", 5), Choice("obsession", 5),
                Choice("kindness", 5), Choice("trust", 5)>>
         [] OTHER ->
              <<Choice("kindness", 5), Choice("obsession", 5),
                Choice("truth", 5), Choice("trust", 5)>>]

\* GameState(current_scene=1, watched_cutscenes=[], memory_values={},
\* act_progression=1) after __post_init__
NewGameState ==
    [current_scene     |-> 1,
     watched_cutscenes |-> <<>>,
     memory_values     |-> ZeroMemory,
     act_progression   |-> 1]

\* StoryEngine.get_memory_percentages: min((value / 100) * 100, 100.0).  For
\* the integer counters of the model the float (value / 100) * 100 is within
\* 1e-13 of value, so it orders and compares with 20 and 100 as value does.
StoryPercentages(m) == [a \in Axes |-> IF m[a] < 100 THEN m[a] ELSE 100]

\* StoryEngine.get_memory_alignment: the dominant axis is taken from the
\* capped percentages
get_memory_alignment(m) ==
    LET pct == StoryPercentages(m) IN
    IF MaxOf(pct) < Threshold THEN "Neutral" ELSE AlignmentMap(Dominant(pct))

\* the guard of StoryEngine.make_choice
StoryValid(i) == ~(i < 0 \/ i >= 4)

StoryFile(g) == [kind |-> "json", state |-> g]

\* StoryEngine.make_choice(i), the whole handler
StoryMakeChoice(i) ==
    /\ engine = "story"
    /\ MemorySum(game_state.memory_values) < MaxTotal
    /\ IF ~StoryValid(i)
       THEN /\ last' = Result("make_choice", i, FALSE, TRUE)
            /\ UNCHANGED <<game_state, save_file, failures>>
       ELSE \E o \in WriteOutcomes(failures) :
            LET c == StoryScenes[game_state.current_scene][i + 1]
                g == [game_state EXCEPT
                        !.memory_values[c.memory_type] = @ + c.memory_value,
                        !.watched_cutscenes =
                            AppendNew(@, game_state.current_scene),
                        !.current_scene =
                            IF c.next_scene # 0 THEN c.next_scene
                            ELSE IF @ < Cardinality(DOMAIN StoryScenes)
                                 THEN @ + 1 ELSE @]
            IN  /\ game_state' = g
                /\ save_file' = WriteFile(save_file, StoryFile(g), o)
                /\ failures' = failures + Failed(o)
                /\ last' = Result("make_choice", i, TRUE, o = "ok")
    /\ UNCHANGED <<engine, configVars, sideVars, backendVars, now, qtVars>>

\* StoryEngine.reset_game()
StoryReset ==
    /\ engine = "story"
    /\ \E o \in WriteOutcomes(failures) :
         /\ game_state' = NewGameState
         /\ save_file' = WriteFile(save_file, StoryFile(NewGameState), o)
         /\ failures' = failures + Failed(o)
         /\ last' = Result("reset_game", 0, save_game_result(o), o = "ok")
    /\ UNCHANGED <<engine, configVars, sideVars, backendVars, now, qtVars>>

\* A new StoryEngine is constructed on the same save file
\* (_load_game_state): the saved state, or a new one when the file is
\* missing or holds no parsable document
StoryRestart ==
    /\ engine = "story"
    /\ game_state' = IF save_file.kind = "json" THEN save_file.state
                     ELSE NewGameState
    /\ last' = Result("restart", 0, TRUE, TRUE)
    /\ UNCHANGED <<engine, configVars, sideVars, backendVars, now, save_file,
                  qtVars, failures>>

----------------------------------------------------------------------------
(* PyQt6 engine (pyqt6_game.py, class GameEngine) *)

\* GameEngine._load_scenes: five scenes of four choices
QtCatalog ==
    [s \in 1..5 |->
       CASE s \in {1, 2, 3} ->
              <<Choice("kindness", 5), Choice("obsession", 5),
                Choice("truth", 5), Choice("trust", 5)>>
         [] s = 4 ->
              <<Choice("truth", 5), Choice("obsession", 5),
                Choice("kindness", 5), Choice("trust", 5)>>
         [] s = 5 ->
              <<Choice("trust", 10), Choice("kindness", 10),
                Choice("obsession", 10), Choice("truth", 10)>>]

\* the id show_ending gives the ending scene
EndingId == 999

\* the keys of self.scenes: the catalog, and 999 while an ending exists
QtSceneIds(ending) ==
    DOMAIN QtCatalog \cup (IF ending = "none" THEN {} ELSE {EndingId})

\* the keys of the "responses" table every choice of the catalog carries
ResponseKeys == {"kindness", "obsession", "truth", "trust", "mixed"}

\* the choices of a scene; the ending scene has the one "Play Again" choice
QtChoices(s) ==
    IF s = EndingId
    THEN <<[memory_type |-> "kindness", memory_value |-> 0,
            next_scene |-> 0, is_play_again |-> TRUE,
            responses |-> {"kindness"}]>>
    ELSE [k \in 1..4 |->
            [memory_type   |-> QtCatalog[s][k].memory_type,
             memory_value  |-> QtCatalog[s][k].memory_value,
             next_scene    |-> 0,
             is_play_again |-> FALSE,
             responses     |-> ResponseKeys]]

\* the alignment of GameEngine.get_memory_data: Neutral only when all
\* counters are zero, the dominant axis otherwise
QtAlignment(m) ==
    IF MemorySum(m) = 0 THEN "Neutral" ELSE AlignmentMap(Dominant(m))

\* the guard of make_choice: `not scene or choice_index >= len(choices)`
QtValid(scene, ending, i) ==
    /\ scene \in QtSceneIds(ending)
    /\ ~(i >= Len(QtChoices(scene)))

\* Python list indexing: a negative index counts from the end
PyIndex(seq, i) == IF i < 0 THEN seq[Len(seq) + i + 1] ELSE seq[i + 1]

\* endings.get(alignment, endings["Neutral"]): the ending shown
QtEndingFor(alignment) ==
    IF alignment \in {"Kind", "Obsessed", "Truth-Seeker", "Trusting",
                      "Neutral"}
    THEN alignment ELSE "Neutral"

\* str.lower() of an alignment label
Lower(alignment) ==
    CASE alignment = "Kind"         -> "kind"
      [] alignment = "Obsessed"     -> "obsessed"
      [] alignment = "Truth-Seeker" -> "truth-seeker"
      [] alignment = "Trusting"     -> "trusting"
      [] alignment = "Neutral"      -> "neutral"
      [] alignment = "Balanced"     -> "balanced"

\* responses.get(alignment.lower(), responses.get("mixed", "Choice made.")):
\* the key of the entry that is selected, or the default text
QtResponse(responses, alignment) ==
    IF Lower(alignment) \in responses THEN Lower(alignment)
    ELSE IF "mixed" \in responses THEN "mixed"
    ELSE "Choice made."

\* MainWindow.__init__: connect_signals(), then load_initial_scene()
NewWindow == [scene |-> 1, connected |-> TRUE]

\* sceneChanged.emit(self.get_scene_data()): update_scene runs when the
\* window is connected to the signal of this engine
SceneChanged(w, s) == IF w.connected THEN [w EXCEPT !.scene = s] ELSE w

\* GameEngine.make_choice(i), the whole handler, show_ending included.  An
\* index below -len(choices) raises IndexError before anything is changed.
QtMakeChoice(i) ==
    /\ engine = "qt"
    /\ IF ~QtValid(qt_scene, qt_ending, i)
          \/ i < 0 - Len(QtChoices(qt_scene))
       THEN /\ last' = Result("make_choice", i, FALSE, TRUE)
            /\ UNCHANGED qtVars
       ELSE LET c == PyIndex(QtChoices(qt_scene), i)
                m == [qt_memory EXCEPT ![c.memory_type] = @ + c.memory_value]
                n == qt_scene + 1
            IN  /\ last' = Result("make_choice", i, TRUE, TRUE)
                /\ IF c.is_play_again
                   THEN \* self.reset_game()
                        /\ qt_scene' = 1
                        /\ qt_memory' = ZeroMemory
                        /\ qt_ending' = "none"
                        /\ qt_response' = "none"
                   ELSE /\ qt_memory' = m
                        /\ qt_response' =
                              QtResponse(c.responses, QtAlignment(m))
                        /\ IF n > Cardinality(QtSceneIds(qt_ending))
                           THEN \* show_ending()
                                /\ qt_ending' = QtEndingFor(QtAlignment(m))
                                /\ qt_scene' = EndingId
                           ELSE /\ qt_scene' = n
                                /\ UNCHANGED qt_ending
                /\ window' = SceneChanged(window, qt_scene')
    /\ UNCHANGED <<engine, configVars, sideVars,
                  backendVars, now, storyVars, failures>>

\* GameEngine.reset_game()
QtReset ==
    /\ engine = "qt"
    /\ qt_scene' = 1
    /\ qt_memory' = ZeroMemory
    /\ qt_ending' = "none"
    /\ qt_response' = "none"
    /\ window' = SceneChanged(window, qt_scene')
    /\ last' = Result("reset_game", 0, TRUE, TRUE)
    /\ UNCHANGED <<engine, configVars, sideVars,
                  backendVars, now, storyVars, failures>>

\* MainWindow.reset_game() answered Yes: the window takes a new GameEngine
\* and shows its first scene; connect_signals is not called again
WindowReset ==
    /\ engine = "qt"
    /\ qt_scene' = 1
    /\ qt_memory' = ZeroMemory
    /\ qt_ending' = "none"
    /\ qt_response' = "none"
    /\ window' = [scene |-> qt_scene', connected |-> FALSE]
    /\ last' = Result("window_reset", 0, TRUE, TRUE)
    /\ UNCHANGED <<engine, configVars, sideVars,
                  backendVars, now, storyVars, failures>>

----------------------------------------------------------------------------
(* Specifications *)

Engines == {"backend", "story", "qt"}

Init ==
    /\ engine \in Engines
    /\ progress = NewProgress
    /\ slots = [k \in Slots |-> AbsentFile]
    /\ start_time = 0
    /\ now = 0
    /\ game_state = NewGameState
    /\ save_file = AbsentFile
    /\ qt_scene = 1
    /\ qt_memory = ZeroMemory
    /\ qt_ending = "none"
    /\ qt_response = "none"
    /\ window = NewWindow
    /\ settings = DefaultSettings
    /\ volume = 7
    /\ typewriter_speed = 5
    /\ auto_advance = TRUE
    /\ race = NoRace
    /\ config = DefaultConfig
    /\ config_file = AbsentFile
    /\ transition_manager = NewTransitionManager
    /\ dialogue_manager = NewDialogueManager
    /\ typewriter = NewTypewriterEffect
    /\ failures = 0
    /\ last = Result("init", 0, TRUE, TRUE)

\* playing: the three engines driven by make_choice and reset
Next ==
    \/ \E i \in ChoiceInputs : LogBelow(MaxChoices) /\ BackendMakeChoice(i)
    \/ BackendReset
    \/ \E i \in ChoiceInputs : StoryMakeChoice(i)
    \/ StoryReset
    \/ StoryRestart
    \/ \E i \in ChoiceInputs : QtMakeChoice(i)
    \/ QtReset

Spec == Init /\ [][Next]_vars

\* playing and persistence: explicit save_game and load_game as well
NextSave ==
    \/ \E i \in SaveInputs : LogBelow(MaxChoices) /\ BackendMakeChoice(i)
    \/ BackendReset
    \/ \E k \in Slots : BackendSaveGame(k)
    \/ \E k \in Slots : BackendLoadGame(k)
    \/ BackendGetSaveSlots
    \/ CliUnknownCommand
    \/ \E i \in SaveInputs : StoryMakeChoice(i)
    \/ StoryReset
    \/ StoryRestart
    \/ \E i \in SaveInputs : QtMakeChoice(i)
    \/ QtReset

SpecSave == Init /\ [][NextSave]_vars

\* the backend alone, as constructed
InitBackend == Init /\ engine = "backend"

\* a long session of the backend: the engine loops back to scene 1 after
\* scene 10 and is played on
NextLong ==
    \/ \E i \in LongInputs : LogBelow(MaxLongChoices) /\ BackendMakeChoice(i)
    \/ BackendReset

SpecLong == InitBackend /\ [][NextLong]_vars

\* sessions of the backend in time: the clock advances, engines are built
\* on the same save directory, saves are written and loaded
NextTime ==
    \/ Tick
    \/ \E i \in TimedInputs :
          LogBelow(MaxTimedChoices) /\ BackendMakeChoice(i)
    \/ BackendReset
    \/ \E k \in Slots : BackendSaveGame(k)
    \/ \E k \in Slots : BackendLoadGame(k)
    \/ BackendNewEngine

SpecTime == InitBackend /\ [][NextTime]_vars

\* the backend played from one thread, then from two at once
NextRace ==
    \/ \E i \in TimedInputs :
          /\ ~race.active
          /\ LogBelow(MaxRaceChoices)
          /\ BackendMakeChoice(i)
    \/ \E i1, i2 \in TimedInputs :
          LogBelow(MaxRaceChoices) /\ RaceBegin(i1, i2)
    \/ \E t \in Threads : RaceStep(t)
    \/ RaceEnd

SpecRace == InitBackend /\ [][NextRace]_vars

\* the configuration manager: updates, and managers built on the file
NextConfig ==
    \/ \E u \in ConfigInputs : UpdateConfig(u)
    \/ NewConfigManager

SpecConfig == InitBackend /\ [][NextConfig]_vars

\* the backend played while its settings are changed
NextSettings ==
    \/ \E i \in TimedInputs : LogBelow(MaxChoices) /\ BackendMakeChoice(i)
    \/ BackendReset
    \/ \E n \in SettingsInputs : BackendUpdateSettings(n)
    \/ BackendNewEngine

SpecSettings == InitBackend /\ [][NextSettings]_vars

\* InitQt: the PyQt front end alone, as constructed
InitQt == Init /\ engine = "qt"

\* the PyQt window: choice clicks, "Play Again", confirmed "Reset Game"
NextQt ==
    \/ \E i \in ChoiceInputs : QtMakeChoice(i)
    \/ QtReset
    \/ WindowReset

SpecQt == InitQt /\ [][NextQt]_vars

\* the CLI bridge: a sequence of commands, one process each
NextCli ==
    \/ \E i \in ChoiceInputs : CliMakeChoice(i)
    \/ CliGetScene
    \/ CliGetMemory
    \/ \E k \in Slots : CliSaveGame(k)
    \/ \E k \in Slots : CliLoadGame(k)

SpecCli == InitBackend /\ [][NextCli]_vars

\* the transition manager: the main thread submits and stops transitions
\* while the transition threads run
NextTrans ==
    \/ \E raises \in BOOLEAN : TmExecute(raises)
    \/ \E t \in TransitionIds : TmThreadStep(t)
    \/ TmStop
    \/ TmClearQueue

SpecTrans == InitBackend /\ [][NextTrans]_vars

\* the same with the scheduling of the interpreter: a transition thread
\* that can run its next statement is not left waiting for ever
SpecTransFair ==
    SpecTrans /\ \A t \in TransitionIds : WF_vars(TmThreadStep(t))

\* the two typewriter effects
NextType ==
    \/ DmSetDisplayCallback
    \/ \E text \in Texts : DmStartDialogue(text)
    \/ DmJoined
    \/ DmThreadStep
    \/ DmSkip
    \/ \E text \in Texts : TwStartTyping(text)
    \/ TwUpdateText
    \/ TwSkipTyping

SpecType == InitBackend /\ [][NextType]_vars

----------------------------------------------------------------------------
(* What the claims speak about *)

\* the memory counters of the running engine
Memory ==
    CASE engine = "backend" -> progress.memory_values
      [] engine = "story"   -> game_state.memory_values
      [] engine = "qt"      -> qt_memory

\* the current scene of the running engine
CurrentScene ==
    CASE engine = "backend" -> progress.current_scene
      [] engine = "story"   -> game_state.current_scene
      [] engine = "qt"      -> qt_scene

\* the catalog scenes of the running engine and their choices
CatalogIds ==
    CASE engine = "backend" -> DOMAIN BackendScenes
      [] engine = "story"   -> DOMAIN StoryScenes
      [] engine = "qt"      -> DOMAIN QtCatalog

NumChoices ==
    CASE engine = "backend" -> Len(BackendScenes[progress.current_scene])
      [] engine = "story"   -> Len(StoryScenes[game_state.current_scene])
      [] engine = "qt"      -> Len(QtChoices(qt_scene))

\* the alignment the running engine reports: get_memory_data()["alignment"]
\* of the two GameEngines, get_memory_alignment() of the StoryEngine
ReportedAlignment ==
    CASE engine = "backend" -> get_current_alignment(progress.memory_values)
      [] engine = "story"   -> get_memory_alignment(game_state.memory_values)
      [] engine = "qt"      -> QtAlignment(qt_memory)

\* classify of the specification: Neutral below the threshold, else the
\* label of the first axis that holds the maximum
Classify(m) ==
    IF \A a \in Axes : m[a] < 20 THEN "Neutral"
    ELSE LET first == CHOOSE k \in 1..4 :
                        /\ \A a \in Axes : m[a] <= m[AxisOrder[k]]
                        /\ \A j \in 1..(k-1) : m[AxisOrder[j]] < m[AxisOrder[k]]
         IN  <<"Kind", "Obsessed", "Truth-Seeker", "Trusting">>[first]

RECURSIVE LogTotal(_)
\* the sum of memory_value over the choices of a backend choice log
LogTotal(log) ==
    IF log = <<>> THEN 0
    ELSE BackendScenes[Head(log).scene][Head(log).choice + 1].memory_value
         + LogTotal(Tail(log))

RECURSIVE QtTotalBefore(_)
\* qt keeps no log: its scenes are played in order, one choice each, and
\* the choices of one scene all carry the same memory_value, so the choices
\* applied since the last reset sum to the values of the scenes before the
\* current one (of all five scenes once the ending is shown)
QtTotalBefore(scene) ==
    IF scene = EndingId THEN QtTotalBefore(Cardinality(DOMAIN QtCatalog) + 1)
    ELSE IF scene <= 1 THEN 0
    ELSE QtCatalog[scene - 1][1].memory_value + QtTotalBefore(scene - 1)

QtValuesUniform ==
    \A sc \in DOMAIN QtCatalog : \A k \in 1..4 :
        QtCatalog[sc][k].memory_value = QtCatalog[sc][1].memory_value

----------------------------------------------------------------------------
(* Claims *)

\* C1: after any sequence of successful make_choice calls since the last
\* reset, the four memory counters sum to the sum of memory_value of the
\* choices applied: no increment is dropped or counted twice (backend: the
\* choices of the choice log; qt: one choice of every scene played).
C1_SumOfMemoryIsSumOfChoices ==
    /\ engine = "backend" =>
         MemorySum(progress.memory_values) = LogTotal(progress.choices_made)
    /\ engine = "qt" =>
         /\ QtValuesUniform
         /\ MemorySum(qt_memory) = QtTotalBefore(qt_scene)

\* C1 witness: a backend playthrough that passed the 10-point scene 8 and
\* chose the same axis more than once
C1_Witness ==
    /\ engine = "backend"
    /\ last.op = "make_choice" /\ last.ok
    /\ Len(progress.choices_made) >= 9
    /\ progress.memory_values["obsession"] >= 15
    /\ progress.memory_values["kindness"] >= 15

\* the index is out of range for the current scene
OutOfRange(i) == i < 0 \/ i >= NumChoices

\* C2: make_choice with an out-of-range index (below 0, or at or above the
\* number of choices of the current scene) reports failure and leaves the
\* current scene, every memory counter and the choice log unchanged.
C2_OutOfRangeChangesNothing ==
    [][(last'.op = "make_choice" /\ OutOfRange(last'.arg)) =>
          /\ ~last'.ok
          /\ CurrentScene' = CurrentScene
          /\ Memory' = Memory
          /\ progress'.choices_made = progress.choices_made]_vars

\* a choice was applied on the last catalog scene since the last reset
Completed ==
    CASE engine = "backend" ->
           \E k \in DOMAIN progress.choices_made :
              progress.choices_made[k].scene = Cardinality(DOMAIN BackendScenes)
      [] engine = "story" ->
           \E k \in DOMAIN game_state.watched_cutscenes :
              game_state.watched_cutscenes[k] = Cardinality(DOMAIN StoryScenes)
      [] engine = "qt" ->
           MemorySum(qt_memory) = QtTotalBefore(EndingId)

\* C3: applying a valid choice on every scene from the first to the last
\* drives the engine to Ended: the current scene is then no catalog scene,
\* and until a reset / play-again no make_choice changes the memory
\* counters or advances to a catalog scene.
C3_LastSceneLeadsToEnded ==
    [][/\ Completed' => CurrentScene' \notin CatalogIds
       /\ (Completed /\ last'.op = "make_choice") =>
            \/ Memory' = Memory /\ CurrentScene' \notin CatalogIds
            \/ Memory' = ZeroMemory /\ CurrentScene' = 1]_vars

\* C4: reset_game called in any reachable state leaves all four counters at
\* 0, the current scene at the catalog's first scene, and the watched
\* scenes and the choice log empty.
C4_ResetYieldsInitialState ==
    last.op = "reset_game" =>
        /\ Memory = ZeroMemory
        /\ CurrentScene = 1
        /\ 1 \in CatalogIds /\ \A sc \in CatalogIds : 1 <= sc
        /\ engine = "backend" =>
             /\ progress.watched_cutscenes = <<>>
             /\ progress.choices_made = <<>>
        /\ engine = "story" => game_state.watched_cutscenes = <<>>

\* C4 witness: the backend was reset after the last scene had been played;
\* the write of the reset failed, so slot 0 still shows the progress that
\* was reset
C4_Witness ==
    /\ engine = "backend"
    /\ last.op = "reset_game" /\ ~last.io_ok
    /\ slots[0].kind = "json"
    /\ Len(slots[0].progress.choices_made) >= 10
    /\ slots[0].progress.memory_values["kindness"] >= 20

\* C5: in every reachable state whose largest counter is below 20 the
\* alignment the engine reports is Neutral; exactly 20 on kindness alone
\* reports Kind.
C5_NeutralBelowThreshold ==
    /\ (\A a \in Axes : Memory[a] < 20) => ReportedAlignment = "Neutral"
    /\ Memory = [ZeroMemory EXCEPT !["kindness"] = 20] =>
         ReportedAlignment = "Kind"

\* C6: for every reachable snapshot whose maximum is at least 20 the
\* alignment is the label of the axis with the greatest counter, the first
\* in the order kindness, obsession, truth, trust winning a tie.
C6_DominantAxisLabel ==
    (\E a \in Axes : Memory[a] >= 20) => ReportedAlignment = Classify(Memory)

\* the progress a load returned carries the scene, the counters and the
\* pairs of the choice log of p
SameProgress(loaded, p) ==
    /\ loaded.current_scene = p.current_scene
    /\ loaded.memory_values = p.memory_values
    /\ Pairs(loaded.choices_made) = Pairs(p.choices_made)

\* C7: save_game(state, slot) followed by load_game(slot) returns a
\* progress whose current scene, memory counters and choice log (same
\* pairs, same order) equal those of the saved state.  The save is one that
\* reported success and the load one that could read the file.
C7_SaveLoadRoundTrip ==
    [][(/\ last.op = "save_game" /\ last.ok
        /\ last'.op = "load_game" /\ last'.arg = last.arg /\ last'.io_ok) =>
          /\ last'.ok
          /\ SameProgress(progress', progress)]_vars

\* C7 witness: slot 3 was loaded and gave a progress with a choice log of
\* several pairs, read back as lists
C7_Witness ==
    /\ engine = "backend"
    /\ last.op = "load_game" /\ last.arg = 3 /\ last.ok
    /\ Len(progress.choices_made) >= 3
    /\ progress.choices_made[1].type = "list"
    /\ progress.memory_values["kindness"] >= 10
    /\ slots[3].kind = "json" /\ slots[3].progress = progress

\* C8: when a playthrough ends, the alignment used for the ending (qt: the
\* ending scene shown; backend: the completion achievement) is the label
\* classify gives for the final memory snapshot, the final choice's
\* increment included.
C8_EndingUsesFinalAlignment ==
    /\ (engine = "qt" /\ qt_ending # "none") =>
         qt_ending = Classify(qt_memory)
    /\ (engine = "backend" /\ last.op = "make_choice" /\ last.ok
          /\ Completed /\ progress.current_scene = 1) =>
         \E k \in DOMAIN progress.achievements :
            progress.achievements[k] = Classify(progress.memory_values)

\* C9: a failed save never reports success: when the slot file cannot be
\* written save_game (and with it the CLI command) answers failure, and
\* success is reported only when the slot then holds the saved progress.
C9_FailedSaveReportsFailure ==
    (engine = "backend" /\ last.op = "save_game") =>
        /\ ~last.io_ok => ~last.ok
        /\ last.ok =>
             LET got == load_game_result(slots[last.arg], TRUE) IN
             /\ got.found
             /\ SameProgress(got.progress, progress)
             /\ got.progress.watched_cutscenes = progress.watched_cutscenes

\* C9 witness: a save to slot 3 failed mid-game and was reported as failed
C9_Witness ==
    /\ engine = "backend"
    /\ last.op = "save_game" /\ last.arg = 3
    /\ ~last.io_ok /\ ~last.ok
    /\ Len(progress.choices_made) >= 2

\* C10: a storage failure is surfaced to the caller: when the autosave made
\* inside make_choice fails, the caller of make_choice is told.
C10_AutosaveFailureSurfaced ==
    (engine = "backend" /\ last.op = "make_choice" /\ ~last.io_ok) => ~last.ok

\* the commands of the CLI the model runs
CliCommands ==
    {"make_choice", "reset_game", "save_game", "load_game", "get_save_slots",
     "unknown"}

\* C11: every failing command of the CLI (make_choice with an invalid
\* index, load_game of a slot with no save, save_game or reset_game whose
\* write fails, an unknown command) answers with a result that carries the
\* key "error", and no successful result carries that key.
C11_FailuresCarryErrorKey ==
    (engine = "backend" /\ last.op \in CliCommands) =>
        (~last.ok <=> "error" \in CliReply(last))

\* the scene, the counters, the watched scenes and the choice log
CoreState(p) ==
    <<p.current_scene, p.memory_values, p.watched_cutscenes, p.choices_made>>

\* C12: load_game on a slot that was never saved, or whose content cannot
\* be read, reports failure and leaves the current scene, the memory
\* counters, the watched scenes and the choice log as they were.
C12_FailedLoadChangesNothing ==
    [][(/\ last'.op = "load_game"
        /\ slots[last'.arg].kind # "json" \/ ~last'.io_ok) =>
          /\ ~last'.ok
          /\ CoreState(progress') = CoreState(progress)]_vars

\* C12 witness: mid-game, the load of a slot that holds no parsable
\* document failed
C12_Witness ==
    /\ engine = "backend"
    /\ last.op = "load_game" /\ ~last.ok
    /\ slots[last.arg].kind = "corrupt"
    /\ Len(progress.choices_made) >= 2
    /\ progress.memory_values["kindness"] >= 10

\* the save directory holds no slot file
EmptyDirectory == \A k \in Slots : slots[k].kind = "absent"

\* the list the last get_save_slots returned
Listing == get_save_slots(slots, BadSlots(last))

\* C13: get_save_slots on an empty save directory returns exactly one
\* summary per slot index 0..9, in slot order, each with alignment "Empty".
C13_EmptyDirectoryListsEverySlot ==
    (engine = "backend" /\ last.op = "get_save_slots" /\ EmptyDirectory) =>
        /\ Len(Listing) = 10
        /\ \A k \in 1..Len(Listing) :
              /\ Listing[k].slot = k - 1
              /\ Listing[k].alignment = "Empty"

\* C13 witness: the slots were listed while the directory was still empty,
\* after a choice whose automatic save had been refused
C13_Witness ==
    /\ engine = "backend"
    /\ last.op = "get_save_slots"
    /\ EmptyDirectory
    /\ Len(progress.choices_made) = 1

\* C14: a slot whose content is corrupt or unreadable is treated as an
\* empty slot: get_save_slots still returns one summary for it, so that the
\* list has one entry per slot in slot order, and load_game of it reports
\* failure.
C14_CorruptSlotListedAsEmpty ==
    /\ (engine = "backend" /\ last.op = "get_save_slots") =>
         /\ Len(Listing) = 10
         /\ \A k \in 1..Len(Listing) : Listing[k].slot = k - 1
         /\ \A k \in Slots :
               (slots[k].kind = "corrupt" \/ k \in BadSlots(last)) =>
                   Listing[k + 1].alignment = "Empty"
    /\ (engine = "backend" /\ last.op = "load_game"
          /\ slots[last.arg].kind = "corrupt") => ~last.ok

\* C15: after a successful make_choice(i) the value get_memory_data reports
\* for the axis of the chosen choice is strictly greater than the value
\* reported before the call, and the values reported for the other three
\* axes are unchanged.
C15_ReportedAxisGrows ==
    [][(engine = "backend" /\ last'.op = "make_choice" /\ last'.ok) =>
          LET axis   == BackendChoice(progress, last'.arg).memory_type
              before == get_memory_percentages(progress.memory_values)
              after  == get_memory_percentages(progress'.memory_values)
          IN  /\ after[axis] > before[axis]
              /\ \A a \in Axes \ {axis} : after[a] = before[a]]_vars

\* the step starts a new game or restores a saved one: reset_game, the
\* "Play Again" choice of the qt ending, a new engine, load_game
NewGameStep ==
    \/ last'.op \in {"reset_game", "load_game", "restart", "new_engine"}
    \/ engine = "qt" /\ last'.op = "make_choice" /\ qt_scene = EndingId

\* C16: within a playthrough no memory counter ever decreases: across every
\* step other than reset / new game (and loading a save) each of the four
\* counters is at least its previous value, and the counters return to
\* zero only through reset / new game.
C16_CountersNeverDecrease ==
    [][/\ ~NewGameStep => \A a \in Axes : Memory'[a] >= Memory[a]
       /\ (Memory # ZeroMemory /\ Memory' = ZeroMemory) => NewGameStep]_vars

\* C16 witness: the backend was played past the loop back to scene 1, its
\* counters kept
C16_Witness ==
    /\ engine = "backend"
    /\ last.op = "make_choice" /\ last.ok
    /\ Len(progress.choices_made) = 11
    /\ progress.current_scene = 2
    /\ progress.memory_values["kindness"] = 50

\* C17: reset_game always succeeds: in every reachable state, also when the
\* save directory cannot be written, it reports success.
C17_ResetAlwaysSucceeds ==
    (engine = "backend" /\ last.op = "reset_game") => last.ok

\* C18: the choice log is append-only and the full history of the
\* playthrough: a successful make_choice(i) made on scene s appends exactly
\* the pair (s, i) and leaves the earlier entries unchanged, a failed
\* make_choice appends nothing, and reset empties the log; so the length of
\* the log is the number of successful choices since the last reset.
C18_ChoiceLogAppendOnly ==
    [][engine = "backend" =>
         /\ (last'.op = "make_choice" /\ last'.ok) =>
               Pairs(progress'.choices_made) =
                   Append(Pairs(progress.choices_made),
                          <<progress.current_scene, last'.arg>>)
         /\ (last'.op = "make_choice" /\ ~last'.ok) =>
               progress'.choices_made = progress.choices_made
         /\ last'.op = "reset_game" => progress'.choices_made = <<>>]_vars

\* C18 witness: the eleventh choice, made on scene 1 after the loop back,
\* was appended behind the ten of the first pass
C18_Witness ==
    /\ engine = "backend"
    /\ last.op = "make_choice" /\ last.ok /\ last.arg = 1
    /\ Len(progress.choices_made) = 11
    /\ Pairs(progress.choices_made)[11] = <<1, 1>>
    /\ Pairs(progress.choices_made)[1] = <<1, 0>>
    /\ Pairs(progress.choices_made)[10] = <<10, 1>>

\* C19: play_time of the session's progress never decreases: every
\* make_choice, also one made after the progress was restored with
\* load_game, leaves a play_time that is at least the previous one (only a
\* reset takes it back to zero).
C19_PlayTimeNeverDecreases ==
    [][(engine = "backend" /\ last'.op = "make_choice") =>
          progress'.play_time >= progress.play_time]_vars

\* C20: settings changes never affect core state: update_settings with any
\* settings leaves the current scene, the memory counters, the watched
\* scenes and the choice log unchanged.
C20_SettingsLeaveCoreState ==
    [][last'.op = "update_settings" =>
          CoreState(progress') = CoreState(progress)]_vars

\* C20 witness: mid-game, the settings took a volume above the range and a
\* key named like a field of the progress, and the scene is still the one
\* the choices led to
C20_Witness ==
    /\ last.op = "update_settings"
    /\ Len(progress.choices_made) = 3
    /\ progress.current_scene = 4
    /\ "current_scene" \in DOMAIN settings
    /\ settings["current_scene"] = 5
    /\ settings["volume"] = 12
    /\ volume = 10

\* make_choice(i) run alone on progress p
Serial(p, i) == IF BackendValid(p, i) THEN Advanced(p, i) ELSE p

\* C21: make_choice is one atomic unit: when two make_choice calls are
\* issued concurrently against the same engine, the memory counters, the
\* choice log and the current scene that result are those of one of the
\* two serial orders.
C21_ConcurrentChoicesSerialize ==
    (race.active /\ \A t \in Threads : race.call[t].pc = "done") =>
        \E first \in Threads :
            LET second == CHOOSE t \in Threads : t # first
                q == Serial(Serial(race.start, race.call[first].i),
                            race.call[second].i)
            IN  /\ progress.memory_values = q.memory_values
                /\ Pairs(progress.choices_made) = Pairs(q.choices_made)
                /\ progress.current_scene = q.current_scene

\* the values of a configuration, a tuple and a list of the same items
\* counting as the same value
ConfigValues(cfg) ==
    [k \in DOMAIN cfg |-> IF k = "resolution" THEN cfg[k].items ELSE cfg[k]]

AlignmentEntry(alignment) ==
    CASE alignment = "Kind"         -> "kindness"
      [] alignment = "Obsessed"     -> "obsession"
      [] alignment = "Truth-Seeker" -> "truth"
      [] alignment = "Trusting"     -> "trust"
      [] OTHER                      -> "mixed"

\* C23: the response make_choice selects is the entry of the choice's
\* response table for the alignment computed after the increment (the
\* kindness entry when the alignment is Kind, ...); the "mixed" entry is
\* selected only when the table has no entry for that alignment.
C23_ResponseFollowsAlignment ==
    (engine = "qt" /\ qt_response # "none") =>
        qt_response = AlignmentEntry(QtAlignment(qt_memory))

\* C24: a transition submitted while another is in progress is queued and
\* executed after it; once the manager is idle and no transition thread is
\* running, no submitted transition is left in the queue (no transition
\* having raised).
C24_IdleQueueIsEmpty ==
    (/\ ~is_transitioning(transition_manager)
     /\ \A t \in TransitionIds :
           /\ transition_manager.threads[t].pc \in {"new", "waiting", "done"}
           /\ transition_manager.threads[t].ended # "raised")
    => transition_manager.transition_queue = <<>>

\* C25: through the CLI, one process per command, progress carries to the
\* next command: after a successful make_choice the next get_scene reports
\* the scene the choice led to and the next get_memory the incremented
\* counters; after a successful load_game the next command reports the
\* loaded progress.
C25_CliProgressCarries ==
    [][(last.op \in {"cli_make_choice", "cli_load_game"} /\ last.ok) =>
          /\ last'.op = "cli_get_scene" => last'.arg = progress.current_scene
          /\ last'.op = "cli_get_memory" =>
                last'.arg = progress.memory_values]_vars

\* the positions of a transition thread in its delay, its effect loop and
\* its callbacks
Executing == {"delay", "effect", "completed", "next"}

\* C26: at most one transition executes at a time: while a transition
\* thread is in its delay, its effect or its callbacks, the manager is not
\* idle and current_transition is that transition, also after a transition
\* that ended with an exception.
C26_OneTransitionAtATime ==
    \A t \in TransitionIds :
        transition_manager.threads[t].pc \in Executing =>
            /\ is_transitioning(transition_manager)
            /\ transition_manager.current_transition = t
            /\ \A u \in TransitionIds \ {t} :
                  transition_manager.threads[u].pc \notin Executing

\* C27: every transition that execute_transition starts eventually ends,
\* and the manager is then idle with current_transition cleared, whether
\* the effect ran to its end, was stopped or raised.
C27_TransitionsEnd ==
    \A t \in TransitionIds :
        (transition_manager.threads[t].pc \notin {"new", "waiting", "done"})
        ~> (/\ transition_manager.threads[t].pc = "done"
            /\ ~is_transitioning(transition_manager)
            /\ transition_manager.current_transition = 0)

\* a stopped and a raising transition have both ended and the manager is
\* idle
C27_Witness ==
    /\ \A how \in {"stopped", "raised"} :
          \E t \in TransitionIds :
             /\ transition_manager.threads[t].pc = "done"
             /\ transition_manager.threads[t].ended = how
    /\ ~is_transitioning(transition_manager)
    /\ transition_manager.current_transition = 0

\* C28: in the PyQt front end the scene the window shows is the current
\* scene of its engine, after any sequence of choice clicks and confirmed
\* "Reset Game" actions.
C28_WindowShowsCurrentScene ==
    engine = "qt" => window.scene = qt_scene

\* C29: the text the typewriter effect shows is a prefix of the text of
\* the dialogue it types and never gets shorter while that dialogue is
\* displayed; after a skip the full text is shown and stays.
C29_TypewriterTextGrows ==
    [][/\ (/\ dialogue_manager'.thread.text = dialogue_manager'.current_dialogue
           /\ dialogue_manager'.thread.i > 0)
          => IsPrefix(dialogue_manager'.display,
                      dialogue_manager'.current_dialogue)
       /\ (/\ last'.op \notin {"start_dialogue", "start_dialogue_joined"}
           /\ dialogue_manager'.current_dialogue =
                 dialogue_manager.current_dialogue)
          => Len(dialogue_manager'.display) >= Len(dialogue_manager.display)
       /\ (last'.op = "skip_typewriter"
           /\ dialogue_manager.display_callback)
          => dialogue_manager'.display = dialogue_manager'.current_dialogue
       /\ IsPrefix(typewriter'.current_text, typewriter'.target_text)
       /\ last'.op # "start_typing"
          => Len(typewriter'.current_text) >= Len(typewriter.current_text)
       /\ last'.op = "skip_typing"
          => typewriter'.current_text = typewriter'.target_text]_vars

\* C30: the automatic saves of make_choice, of the game completion and of
\* reset_game write slot 0 only: the content of a slot k >= 1 changes only
\* in a save_game to slot k, and a save_game to one slot leaves the other
\* slots as they were.
C30_OnlySaveGameWritesOtherSlots ==
    [][/\ \A k \in Slots \ {0} :
             slots'[k] # slots[k] =>
                 (last'.op = "save_game" /\ last'.arg = k)
       /\ last'.op = "save_game" =>
             \A k \in Slots \ {last'.arg} : slots'[k] = slots[k]]_vars

\* slot 3 holds an explicit save, and a later choice has auto-saved another
\* progress to slot 0
C30_Witness ==
    /\ engine = "backend"
    /\ last.op = "make_choice" /\ last.ok /\ last.io_ok
    /\ slots[3].kind = "json"
    /\ slots[0].kind = "json"
    /\ slots[0].progress # slots[3].progress

============================================================================
